---- MODULE Spec2Model ----
(***************************************************************************)
(* A model of patch_builder/patch_builder.py: the window partitioner       *)
(* (divide_chunks, patch_windows), the geotransform of a patch             *)
(* (pixel_world, write_geotiff) and the concurrent tile writer (process,   *)
(* PatchBuilder.patch_items).                                              *)
(***************************************************************************)
EXTENDS Integers, Sequences, FiniteSets, TLC

\* ------------------------------------------------------------------ bounds
\* Largest raster or patch dimension the partitioner is applied to.
MaxDim == 4
\* Largest width and height of the raster the tile writer is run on.
MaxRaster == 3
\* Largest patch width and height (size option) the tile writer is run with.
MaxPatch == 2
\* Largest number of windows of a raster the tile writer is run on.
MaxWindows == 2
\* Largest cpu_count() of the machine.
MaxCpu == 3
\* Largest number of exceptions raised inside window tasks.
MaxFailures == 1
\* Largest max_retries run_with_retry is called with.
MaxRetries == 4
\* Largest wait_seconds run_with_retry is called with.
MaxWait == 2
\* Largest number of items in the batch given to patch_items.
MaxItems == 2

\* ------------------------------------------------------- program constants
\* run_with_retry's default max_retries
DefaultMaxRetries == 3
\* run_with_retry's default wait_seconds
DefaultWaitSeconds == 2

\* ------------------------------------------------------------- partitioner
VARIABLES
    totalWidth,     \* patch_windows argument: raster width
    totalHeight,    \* patch_windows argument: raster height
    subWidth,       \* patch_windows argument: patch width
    subHeight,      \* patch_windows argument: patch height
    wins,           \* the list patch_windows returned
    ppc,            \* "call" before patch_windows ran, "returned" after it
                    \* returned, "raised" after it raised ValueError
    outfiles,       \* the output paths patch_items gives the enumerated windows
    in_gt,          \* in_ds.GetGeoTransform(): <<ox0, px, rx, oy0, ry, py>>
    geo_win,        \* index in wins of the window whose geotransform was set (0: none)
    out_gt          \* the geotransform write_geotiff set on out_ds

pvars == <<totalWidth, totalHeight, subWidth, subHeight, wins, ppc, outfiles,
           in_gt, geo_win, out_gt>>

\* ------------------------------------------------------------- tile writer
VARIABLES
    ds,             \* the opened raster: RasterXSize, RasterYSize, NoDataValue,
                    \* GeoTransform, and blank (columns x < blank hold no data)
    wsize,          \* self._wsize: patch width
    hsize,          \* self._hsize: patch height
    cpu,            \* cpu_count()
    run,            \* run[r]: "idle", "running", "done" or "crashed", per invocation
    pc,             \* pc[r][k]: where the task of window k of invocation r is
    src_array,      \* src_array[r][k]: the buffer process holds (<<>>: none)
    ret,            \* ret[r][k]: what process returned ("" while it has not)
    files,          \* the output directory: path index -> file
    creates,        \* creates[k]: how many times driver.Create made path k
    failures,       \* exceptions raised so far
    sequential,     \* invocation 2 started after invocation 1 had returned
    snapshot        \* the output directory as invocation 2 found it

wvars == <<ds, wsize, hsize, cpu, run, pc, src_array, ret, files, creates,
           failures, sequential, snapshot>>

\* ---------------------------------------------------------- run_with_retry
VARIABLES
    max_retries,    \* run_with_retry parameter
    wait_seconds,   \* run_with_retry parameter
    num_retries,    \* run_with_retry local, 1 at entry
    rpc,            \* "idle", "call" (about to call func), "sleep", "returned", "raised"
    calls,          \* the outcomes of the calls of func so far: "ok" or "err", in order
    result,         \* the call whose value was returned, or whose exception was raised (0: none)
    slept           \* seconds spent in sleep(wait_seconds) so far

rvars == <<max_retries, wait_seconds, num_retries, rpc, calls, result, slept>>

\* ------------------------------------------------------------- patch_items
VARIABLES
    ondisk,         \* ondisk[i]: os.path.exists(filename) for item i of the batch
    cur,            \* the item the for loop of patch_items is at
    bpc,            \* "idle", "next", "fetch", "open", "tile", "ended" or "aborted"
    item            \* item[i]: "pending", "patched", "unopened" or "nofetch"

bvars == <<ondisk, cur, bpc, item>>

ovars == <<rvars, bvars>>

vars == <<pvars, wvars, rvars, bvars>>

Min(a, b) == IF a < b THEN a ELSE b

\* ceil(a / b) for a >= 0, b > 0
CeilDiv(a, b) == (a + b - 1) \div b

\* list(range(n)): the sequence 0, 1, ..., n-1 (empty when n <= 0)
RangeList(n) == [k \in 1..n |-> k - 1]

\* range(start, stop, step) for step # 0, as the iteration produces it:
\* upwards while start < stop, downwards (step < 0) while start > stop
RECURSIVE RangeStep(_, _, _)
RangeStep(start, stop, step) ==
    IF step > 0
    THEN (IF start >= stop THEN <<>>
          ELSE <<start>> \o RangeStep(start + step, stop, step))
    ELSE (IF start <= stop THEN <<>>
          ELSE <<start>> \o RangeStep(start + step, stop, step))

\* range(0, len(l_dimension), n) raises ValueError when n is zero
RangeRaises(n) == n = 0

\* the python slice l[a:b] of a list, 0 <= a, clipped at the end of the list
Slice(l, a, b) == SubSeq(l, a + 1, Min(b, Len(l)))

\* a slice that loses the last element of a full chunk
DivideChunksShort(l_dimension, n) ==
    LET starts == RangeStep(0, Len(l_dimension), n)
    IN  [k \in 1..Len(starts) |->
            Slice(l_dimension, starts[k],
                  IF n > 1 THEN starts[k] + n - 1 ELSE starts[k] + n)]

\* divide_chunks: for i in range(0, len(l), n): yield l[i:i + n]
divide_chunks(l_dimension, n) ==
    LET starts == RangeStep(0, Len(l_dimension), n)
    IN  [k \in 1..Len(starts) |-> Slice(l_dimension, starts[k], starts[k] + n)]

\* the comprehension with the remainder chunk of the x axis left out
PatchWindowsNoRagged(tw, th, sw, sh) ==
    LET w_all == divide_chunks(RangeList(tw), sw)
        w_n == IF Len(w_all) > 1 /\ Len(w_all[Len(w_all)]) < sw
               THEN SubSeq(w_all, 1, Len(w_all) - 1) ELSE w_all
        h_n == divide_chunks(RangeList(th), sh)
        nw  == Len(w_n)
    IN  [k \in 1..(Len(h_n) * nw) |->
            LET h == h_n[((k - 1) \div nw) + 1]
                w == w_n[((k - 1) % nw) + 1]
            IN  <<w[1], h[1], Len(w), Len(h)>>]

\* the comprehension with the loops exchanged: for w in w_n for h in h_n
PatchWindowsColumnMajor(tw, th, sw, sh) ==
    LET w_n == divide_chunks(RangeList(tw), sw)
        h_n == divide_chunks(RangeList(th), sh)
        nh  == Len(h_n)
    IN  [k \in 1..(Len(w_n) * nh) |->
            LET w == w_n[((k - 1) \div nh) + 1]
                h == h_n[((k - 1) % nh) + 1]
            IN  <<w[1], h[1], Len(w), Len(h)>>]

\* patch_windows: [(w[0], h[0], len(w), len(h)) for h in h_n for w in w_n]
\* A window is <<offset-x, offset-y, size-x, size-y>>.
patch_windows(tw, th, sw, sh) ==
    LET w_n == divide_chunks(RangeList(tw), sw)
        h_n == divide_chunks(RangeList(th), sh)
        nw  == Len(w_n)
    IN  [k \in 1..(Len(h_n) * nw) |->
            LET h == h_n[((k - 1) \div nw) + 1]
                w == w_n[((k - 1) % nw) + 1]
            IN  <<w[1], h[1], Len(w), Len(h)>>]

\* whether patch_windows raises: list(divide_chunks(..., 0)) on either axis
PatchWindowsRaises(tw, th, sw, sh) == RangeRaises(sw) \/ RangeRaises(sh)

\* ------------------------------------------------------------ output paths
Digits == <<"0", "1", "2", "3", "4", "5", "6", "7", "8", "9">>

\* str(count) for count >= 0: its decimal digits, most significant first
RECURSIVE Str(_)
Str(n) == IF n < 10 THEN <<Digits[n + 1]>> ELSE Str(n \div 10) \o <<Digits[(n % 10) + 1]>>

\* patch_items: base_out + '_' + str(count) + ext
OutFile(count) == <<"base_out", "_">> \o Str(count) \o <<".tif">>

\* patch_items: the paths of enumerate(patch_windows(...)), count from 0
OutFiles(windows) == [k \in 1..Len(windows) |-> OutFile(k - 1)]

\* ------------------------------------------------------------ geotransform
\* Source geotransforms: north-up, and with non-zero rotation terms.
GeoTransforms ==
    {<<100, 10, rx, 200, ry, 0 - 10>> : rx \in {0, 3}, ry \in {0, 2}}

NorthUp == <<100, 10, 0, 200, 0, 0 - 10>>

\* pixel_world: x_coord = geoMatrix[0] + x * geoMatrix[1],
\*              y_coord = geoMatrix[3] + y * geoMatrix[5]
pixel_world(geoMatrix, x, y) ==
    <<geoMatrix[1] + (x * geoMatrix[2]), geoMatrix[4] + (y * geoMatrix[6])>>

\* write_geotiff: the geotransform left on out_ds by the two SetGeoTransform
\* calls (the second, with the moved origin, replaces the first)
OutGeoTransform(gt, w_index_x, w_index_y) ==
    LET ul == pixel_world(gt, w_index_x, w_index_y)
        outGeoTransform == [gt EXCEPT ![1] = ul[1], ![4] = ul[2]]
    IN  outGeoTransform

\* ------------------------------------------------------------- tile writer
\* GetNoDataValue() of a band that declares no no-data value (None)
NONE == 0 - 1

Runs == {1, 2}

\* num_workers = int(cpu_count() - (cpu_count() * 0.10))
num_workers(c) == (9 * c) \div 10

\* the value ds holds at pixel (x, y)
Pixel(d, x, y) ==
    IF x < d.blank
    THEN (IF d.NoDataValue = NONE THEN 0 ELSE d.NoDataValue)
    ELSE 1 + x + y * d.RasterXSize

\* in_ds.ReadAsArray(xoff, yoff, xsize, ysize): the block, indexed <<row, col>>
ReadAsArray(d, xoff, yoff, xsize, ysize) ==
    [p \in (0..(ysize - 1)) \X (0..(xsize - 1)) |-> Pixel(d, xoff + p[2], yoff + p[1])]

\* patch_items: noDataValue = GetNoDataValue(), 0 when it is None
noDataValue(d) == IF d.NoDataValue = NONE THEN 0 ELSE d.NoDataValue

\* patch_items: the windows enumerated into the task list
Windows == patch_windows(ds.RasterXSize, ds.RasterYSize, wsize, hsize)

NumWindows == Len(Windows)

\* np.ones((rows_w, cols_w)) * nodata
FilledArray(rows_w, cols_w, nodata) ==
    [p \in (0..(rows_w - 1)) \X (0..(cols_w - 1)) |-> 1 * nodata]

\* a buffer allocated with the axes exchanged
NewBufferSwapped(rows_w, cols_w, nodata) == FilledArray(cols_w, rows_w, nodata)

\* process: src_array = np.ones((rows_w, cols_w)) * nodata
NewBuffer(rows_w, cols_w, nodata) == FilledArray(rows_w, cols_w, nodata)

\* whether src_array[0:window[3], 0:window[2]] = block broadcasts
BlockFits(arr, window) ==
    \A p \in (0..(window[4] - 1)) \X (0..(window[3] - 1)) : p \in DOMAIN arr

\* src_array[0:window[3], 0:window[2]] = block
AssignBlock(arr, block) ==
    [p \in DOMAIN arr |-> IF p \in DOMAIN block THEN block[p] ELSE arr[p]]

\* arr.shape[0] and arr.shape[1]
Shape0(arr) == Cardinality({p[1] : p \in DOMAIN arr})
Shape1(arr) == Cardinality({p[2] : p \in DOMAIN arr})

\* an existence test that never finds the file
PathExistsNever(k) == FALSE

\* os.path.exists(outfile)
PathExists(k) == k \in DOMAIN files

\* process tuple built at patch_items: (outfile, self._hsize, self._wsize, noDataValue, ds, window)
RowsW == hsize
ColsW == wsize

Terminal == {"written", "skipped", "failed"}
InFlight == {"reading", "create", "write"}

WriterIdle ==
    /\ ds = [RasterXSize |-> 1, RasterYSize |-> 1, NoDataValue |-> NONE,
             GeoTransform |-> NorthUp, blank |-> 0]
    /\ wsize = 1
    /\ hsize = 1
    /\ cpu = 1
    /\ run = [r \in Runs |-> "idle"]
    /\ pc = [r \in Runs |-> <<>>]
    /\ src_array = [r \in Runs |-> <<>>]
    /\ ret = [r \in Runs |-> <<>>]
    /\ files = <<>>
    /\ creates = <<>>
    /\ failures = 0
    /\ sequential = FALSE
    /\ snapshot = <<>>

RetryIdle ==
    /\ max_retries = DefaultMaxRetries
    /\ wait_seconds = DefaultWaitSeconds
    /\ num_retries = 1
    /\ rpc = "idle"
    /\ calls = <<>>
    /\ result = 0
    /\ slept = 0

BatchIdle ==
    /\ ondisk = <<>>
    /\ cur = 1
    /\ bpc = "idle"
    /\ item = <<>>

PartitionerIdle ==
    /\ totalWidth = 1 /\ totalHeight = 1 /\ subWidth = 1 /\ subHeight = 1
    /\ wins = <<>>
    /\ outfiles = <<>>
    /\ ppc = "call"
    /\ in_gt = NorthUp
    /\ geo_win = 0
    /\ out_gt = <<>>

\* no invocation started, every task queued, the output directory empty
WriterStart ==
    /\ run = [r \in Runs |-> "idle"]
    /\ pc = [r \in Runs |-> [k \in 1..NumWindows |-> "queued"]]
    /\ src_array = [r \in Runs |-> [k \in 1..NumWindows |-> <<>>]]
    /\ ret = [r \in Runs |-> [k \in 1..NumWindows |-> ""]]
    /\ files = <<>>
    /\ creates = [k \in 1..NumWindows |-> 0]
    /\ failures = 0
    /\ sequential = FALSE
    /\ snapshot = <<>>

Init ==
    /\ PartitionerIdle
    /\ RetryIdle
    /\ BatchIdle
    /\ \E w \in 1..MaxRaster, h \in 1..MaxRaster, nd \in {NONE, 99} :
        \E b \in {0, w} \cup {x \in {1} : w > 1} :
            ds = [RasterXSize |-> w, RasterYSize |-> h, NoDataValue |-> nd,
                  GeoTransform |-> NorthUp, blank |-> b]
    /\ wsize \in 1..MaxPatch
    /\ hsize \in 1..MaxPatch
    /\ Len(patch_windows(ds.RasterXSize, ds.RasterYSize, wsize, hsize)) <= MaxWindows
    /\ cpu \in 1..MaxCpu
    /\ WriterStart

Finished(r) == run[r] \in {"done", "crashed"}

\* patch_items reaches "with ThreadPoolExecutor(max_workers=num_workers)": the
\* constructor raises ValueError when max_workers <= 0
EnterPool(r) ==
    /\ run[r] = "idle"
    /\ run' = [run EXCEPT ![r] = IF num_workers(cpu) <= 0 THEN "crashed" ELSE "running"]
    /\ IF r = 2
       THEN sequential' = Finished(1) /\ snapshot' = files
       ELSE UNCHANGED <<sequential, snapshot>>
    /\ UNCHANGED <<ds, wsize, hsize, cpu, pc, src_array, ret, files, creates, failures>>
    /\ UNCHANGED <<pvars, ovars>>

\* the tile writer is invoked; a second time once the first invocation returned
StartRun(r) ==
    /\ r = 2 => Finished(1)
    /\ EnterPool(r)

\* another caller invokes the tile writer on the same raster and output
\* directory while the first invocation is running
StartConcurrent(r) ==
    /\ r = 2
    /\ run[1] = "running"
    /\ EnterPool(r)

\* a worker of the pool takes the next task of the queue and process tests
\* os.path.exists(outfile)
Check(r, k) ==
    /\ run[r] = "running"
    /\ pc[r][k] = "queued"
    /\ \A j \in 1..(k - 1) : pc[r][j] # "queued"
    /\ Cardinality({j \in 1..NumWindows : pc[r][j] \in InFlight}) < num_workers(cpu)
    /\ IF PathExists(k)
       THEN /\ pc' = [pc EXCEPT ![r][k] = "skipped"]
            /\ ret' = [ret EXCEPT ![r][k] = "None"]
       ELSE /\ pc' = [pc EXCEPT ![r][k] = "reading"]
            /\ UNCHANGED ret
    /\ UNCHANGED <<ds, wsize, hsize, cpu, run, src_array, files, creates, failures,
                   sequential, snapshot>>
    /\ UNCHANGED <<pvars, ovars>>

\* process: the buffer is allocated, ReadAsArray returns and the block is
\* copied into the buffer (ValueError, caught, when it does not fit)
ReadDone(r, k) ==
    /\ pc[r][k] = "reading"
    /\ LET window == Windows[k]
           arr == NewBuffer(RowsW, ColsW, noDataValue(ds))
           block == ReadAsArray(ds, window[1], window[2], window[3], window[4])
       IN  IF BlockFits(arr, window)
           THEN /\ src_array' = [src_array EXCEPT ![r][k] = AssignBlock(arr, block)]
                /\ pc' = [pc EXCEPT ![r][k] = "create"]
                /\ UNCHANGED ret
           ELSE /\ pc' = [pc EXCEPT ![r][k] = "failed"]
                /\ ret' = [ret EXCEPT ![r][k] = "None"]
                /\ UNCHANGED src_array
    /\ UNCHANGED <<ds, wsize, hsize, cpu, run, files, creates, failures,
                   sequential, snapshot>>
    /\ UNCHANGED <<pvars, ovars>>

\* process: ReadAsArray raises; except Exception prints it
ReadFail(r, k) ==
    /\ pc[r][k] = "reading"
    /\ failures < MaxFailures
    /\ failures' = failures + 1
    /\ pc' = [pc EXCEPT ![r][k] = "failed"]
    /\ ret' = [ret EXCEPT ![r][k] = "None"]
    /\ UNCHANGED <<ds, wsize, hsize, cpu, run, src_array, files, creates,
                   sequential, snapshot>>
    /\ UNCHANGED <<pvars, ovars>>

\* the file driver.Create leaves at the path, with the projection and the
\* geotransform set and no pixel written yet
CreatedFile(r, k, arr) ==
    [xsize |-> Shape1(arr), ysize |-> Shape0(arr),
     gt |-> OutGeoTransform(ds.GeoTransform, Windows[k][1], Windows[k][2]),
     arr |-> FilledArray(Shape0(arr), Shape1(arr), 0),
     nodata |-> NONE,
     complete |-> FALSE,
     open |-> (IF PathExists(k) THEN files[k].open ELSE {}) \cup {r},
     overlapped |-> PathExists(k) /\ files[k].open # {}]

\* write_geotiff: driver.Create(filename, arr.shape[1], arr.shape[0], ...),
\* SetProjection, SetGeoTransform. Create replaces a file already at the path.
Create(r, k) ==
    /\ pc[r][k] = "create"
    /\ files' = [j \in DOMAIN files \cup {k} |->
                    IF j = k THEN CreatedFile(r, k, src_array[r][k]) ELSE files[j]]
    /\ creates' = [creates EXCEPT ![k] = @ + 1]
    /\ pc' = [pc EXCEPT ![r][k] = "write"]
    /\ UNCHANGED <<ds, wsize, hsize, cpu, run, src_array, ret, failures,
                   sequential, snapshot>>
    /\ UNCHANGED <<pvars, ovars>>

\* write_geotiff: driver.Create raises, no file is made
CreateFail(r, k) ==
    /\ pc[r][k] = "create"
    /\ failures < MaxFailures
    /\ failures' = failures + 1
    /\ pc' = [pc EXCEPT ![r][k] = "failed"]
    /\ ret' = [ret EXCEPT ![r][k] = "None"]
    /\ src_array' = [src_array EXCEPT ![r][k] = <<>>]
    /\ UNCHANGED <<ds, wsize, hsize, cpu, run, files, creates, sequential, snapshot>>
    /\ UNCHANGED <<pvars, ovars>>

\* write_geotiff: WriteArray, SetNoDataValue, FlushCache; out_ds is closed as
\* the function returns. When another handle was open on the path while this
\* one was, what the file holds is either outcome.
Write(r, k) ==
    /\ pc[r][k] = "write"
    /\ \E intact \in BOOLEAN :
        /\ intact \/ files[k].overlapped
        /\ files' = [files EXCEPT ![k] =
                        [@ EXCEPT !.arr = src_array[r][k],
                                  !.nodata = ds.NoDataValue,
                                  !.complete = intact,
                                  !.open = @ \ {r}]]
    /\ pc' = [pc EXCEPT ![r][k] = "written"]
    /\ ret' = [ret EXCEPT ![r][k] = "None"]
    /\ src_array' = [src_array EXCEPT ![r][k] = <<>>]
    /\ UNCHANGED <<ds, wsize, hsize, cpu, run, creates, failures, sequential, snapshot>>
    /\ UNCHANGED <<pvars, ovars>>

\* write_geotiff: WriteArray or FlushCache raises; the created file stays
WriteFail(r, k) ==
    /\ pc[r][k] = "write"
    /\ failures < MaxFailures
    /\ failures' = failures + 1
    /\ files' = [files EXCEPT ![k] = [@ EXCEPT !.complete = FALSE, !.open = @ \ {r}]]
    /\ pc' = [pc EXCEPT ![r][k] = "failed"]
    /\ ret' = [ret EXCEPT ![r][k] = "None"]
    /\ src_array' = [src_array EXCEPT ![r][k] = <<>>]
    /\ UNCHANGED <<ds, wsize, hsize, cpu, run, creates, sequential, snapshot>>
    /\ UNCHANGED <<pvars, ovars>>

\* the with block ends: the pool has drained and patch_items goes on; the
\* results of executor.map are never read
PoolDrained(r) ==
    /\ run[r] = "running"
    /\ \A k \in 1..NumWindows : pc[r][k] \in Terminal
    /\ run' = [run EXCEPT ![r] = "done"]
    /\ UNCHANGED <<ds, wsize, hsize, cpu, pc, src_array, ret, files, creates,
                   failures, sequential, snapshot>>
    /\ UNCHANGED <<pvars, ovars>>

\* two invocations of the tile writer, one after the other
Next ==
    \/ \E r \in Runs : StartRun(r)
    \/ \E r \in Runs, k \in 1..NumWindows : Check(r, k)
    \/ \E r \in Runs, k \in 1..NumWindows : ReadDone(r, k)
    \/ \E r \in Runs, k \in 1..NumWindows : ReadFail(r, k)
    \/ \E r \in Runs, k \in 1..NumWindows : Create(r, k)
    \/ \E r \in Runs, k \in 1..NumWindows : CreateFail(r, k)
    \/ \E r \in Runs, k \in 1..NumWindows : Write(r, k)
    \/ \E r \in Runs, k \in 1..NumWindows : WriteFail(r, k)
    \/ \E r \in Runs : PoolDrained(r)

Spec == Init /\ [][Next]_vars

\* two invocations of the tile writer that may overlap, on a one-row raster
\* of one-pixel windows
InitConc ==
    /\ PartitionerIdle
    /\ RetryIdle
    /\ BatchIdle
    /\ \E w \in 1..MaxWindows :
            ds = [RasterXSize |-> w, RasterYSize |-> 1, NoDataValue |-> 99,
                  GeoTransform |-> NorthUp, blank |-> 0]
    /\ wsize = 1
    /\ hsize = 1
    /\ cpu \in 1..MaxCpu
    /\ WriterStart

NextConc ==
    \/ \E r \in Runs : StartRun(r)
    \/ \E r \in Runs : StartConcurrent(r)
    \/ \E r \in Runs, k \in 1..NumWindows : Check(r, k)
    \/ \E r \in Runs, k \in 1..NumWindows : ReadDone(r, k)
    \/ \E r \in Runs, k \in 1..NumWindows : ReadFail(r, k)
    \/ \E r \in Runs, k \in 1..NumWindows : Create(r, k)
    \/ \E r \in Runs, k \in 1..NumWindows : CreateFail(r, k)
    \/ \E r \in Runs, k \in 1..NumWindows : Write(r, k)
    \/ \E r \in Runs, k \in 1..NumWindows : WriteFail(r, k)
    \/ \E r \in Runs : PoolDrained(r)

SpecConc == InitConc /\ [][NextConc]_vars

\* ---------------------------------------------------------- run_with_retry
\* the test that gives up one attempt early
ExhaustedEarly(n, m) == n >= m

\* run_with_retry: if num_retries > max_retries
Exhausted(n, m) == n > m

\* run_with_retry: return func(*func_params.values()), func returning
FuncReturns ==
    /\ rpc = "call"
    /\ calls' = Append(calls, "ok")
    /\ result' = Len(calls) + 1
    /\ rpc' = "returned"
    /\ UNCHANGED <<max_retries, wait_seconds, num_retries, slept>>
    /\ UNCHANGED <<pvars, wvars, bvars>>

\* run_with_retry: func raises; the handler re-raises when the retries are
\* used up, else counts the retry and goes to sleep
FuncRaises ==
    /\ rpc = "call"
    /\ calls' = Append(calls, "err")
    /\ IF Exhausted(num_retries, max_retries)
       THEN /\ rpc' = "raised"
            /\ result' = Len(calls) + 1
            /\ UNCHANGED num_retries
       ELSE /\ num_retries' = num_retries + 1
            /\ rpc' = "sleep"
            /\ UNCHANGED result
    /\ UNCHANGED <<max_retries, wait_seconds, slept>>
    /\ UNCHANGED <<pvars, wvars, bvars>>

\* run_with_retry: sleep(wait_seconds), then the loop calls func again
Sleep ==
    /\ rpc = "sleep"
    /\ slept' = slept + wait_seconds
    /\ rpc' = "call"
    /\ UNCHANGED <<max_retries, wait_seconds, num_retries, calls, result>>
    /\ UNCHANGED <<pvars, wvars, bvars>>

\* a call run_with_retry(func, max_retries, wait_seconds) has been entered
InitRetry ==
    /\ PartitionerIdle
    /\ WriterIdle
    /\ BatchIdle
    /\ max_retries \in 0..MaxRetries
    /\ wait_seconds \in 0..MaxWait
    /\ num_retries = 1
    /\ rpc = "call"
    /\ calls = <<>>
    /\ result = 0
    /\ slept = 0

NextRetry ==
    \/ FuncReturns
    \/ FuncRaises
    \/ Sleep

SpecRetry == InitRetry /\ [][NextRetry]_vars

\* ------------------------------------------------------------- patch_items
\* the for loop goes on to the next item, or patch_items returns
Advance ==
    /\ cur' = cur + 1
    /\ bpc' = IF cur + 1 > Len(item) THEN "ended" ELSE "next"

\* patch_items: the bytes of the item are read from the downloaded file when
\* it exists, else run_with_retry(func=_url_open, param1=url) is entered
BeginItem ==
    /\ bpc = "next"
    /\ IF ondisk[cur]
       THEN /\ bpc' = "open"
            /\ UNCHANGED rvars
       ELSE /\ bpc' = "fetch"
            /\ max_retries' = DefaultMaxRetries
            /\ wait_seconds' = DefaultWaitSeconds
            /\ num_retries' = 1
            /\ rpc' = "call"
            /\ calls' = <<>>
            /\ result' = 0
            /\ slept' = 0
    /\ UNCHANGED <<ondisk, cur, item>>
    /\ UNCHANGED <<pvars, wvars>>

\* patch_items: tif_bytes = run_with_retry(...) returned the bytes
FetchReturned ==
    /\ bpc = "fetch"
    /\ rpc = "returned"
    /\ rpc' = "idle"
    /\ bpc' = "open"
    /\ UNCHANGED <<max_retries, wait_seconds, num_retries, calls, result, slept>>
    /\ UNCHANGED <<ondisk, cur, item>>
    /\ UNCHANGED <<pvars, wvars>>

\* patch_items: run_with_retry raised; the call is outside any try, so the
\* exception leaves patch_items
FetchRaised ==
    /\ bpc = "fetch"
    /\ rpc = "raised"
    /\ rpc' = "idle"
    /\ item' = [item EXCEPT ![cur] = "nofetch"]
    /\ bpc' = "aborted"
    /\ UNCHANGED <<max_retries, wait_seconds, num_retries, calls, result, slept>>
    /\ UNCHANGED <<ondisk, cur>>
    /\ UNCHANGED <<pvars, wvars>>

\* patch_items: FileFromMemBuffer, gdal.Open and CreateCopy give the dataset
OpenRaster ==
    /\ bpc = "open"
    /\ bpc' = "tile"
    /\ UNCHANGED <<ondisk, cur, item>>
    /\ UNCHANGED <<pvars, wvars, rvars>>

\* patch_items: gdal raises RuntimeError, caught: ds = None, the windows of
\* the item are not processed and the loop goes on
OpenFails ==
    /\ bpc = "open"
    /\ item' = [item EXCEPT ![cur] = "unopened"]
    /\ Advance
    /\ UNCHANGED ondisk
    /\ UNCHANGED <<pvars, wvars, rvars>>

\* patch_items: if ds != None, the windows are mapped over the pool (the
\* tile writer); ThreadPoolExecutor raises ValueError when num_workers <= 0
\* and the exception leaves patch_items
TileItem ==
    /\ bpc = "tile"
    /\ IF num_workers(cpu) <= 0
       THEN /\ bpc' = "aborted"
            /\ UNCHANGED <<cur, item>>
       ELSE /\ item' = [item EXCEPT ![cur] = "patched"]
            /\ Advance
    /\ UNCHANGED ondisk
    /\ UNCHANGED <<pvars, wvars, rvars>>

\* patch_items(items) has been called with a batch of items
InitBatch ==
    /\ PartitionerIdle
    /\ RetryIdle
    /\ ds = [RasterXSize |-> 1, RasterYSize |-> 1, NoDataValue |-> NONE,
             GeoTransform |-> NorthUp, blank |-> 0]
    /\ wsize = 1
    /\ hsize = 1
    /\ cpu \in 1..MaxCpu
    /\ run = [r \in Runs |-> "idle"]
    /\ pc = [r \in Runs |-> <<>>]
    /\ src_array = [r \in Runs |-> <<>>]
    /\ ret = [r \in Runs |-> <<>>]
    /\ files = <<>>
    /\ creates = <<>>
    /\ failures = 0
    /\ sequential = FALSE
    /\ snapshot = <<>>
    /\ \E n \in 1..MaxItems :
        /\ ondisk \in [1..n -> BOOLEAN]
        /\ item = [i \in 1..n |-> "pending"]
    /\ cur = 1
    /\ bpc = "next"

NextBatch ==
    \/ BeginItem
    \/ FuncReturns
    \/ FuncRaises
    \/ Sleep
    \/ FetchReturned
    \/ FetchRaised
    \/ OpenRaster
    \/ OpenFails
    \/ TileItem

SpecBatch == InitBatch /\ [][NextBatch]_vars

InitWin ==
    /\ in_gt \in GeoTransforms
    /\ geo_win = 0
    /\ out_gt = <<>>
    /\ totalWidth \in 1..MaxDim
    /\ totalHeight \in 1..MaxDim
    /\ subWidth \in 1..MaxDim
    /\ subHeight \in 1..MaxDim
    /\ wins = <<>>
    /\ outfiles = <<>>
    /\ ppc = "call"
    /\ WriterIdle
    /\ RetryIdle
    /\ BatchIdle

\* arguments of any sign: zero and negative dimensions included
InitArgs ==
    /\ in_gt \in GeoTransforms
    /\ geo_win = 0
    /\ out_gt = <<>>
    /\ totalWidth \in (0 - 1)..MaxDim
    /\ totalHeight \in (0 - 1)..MaxDim
    /\ subWidth \in (0 - 1)..MaxDim
    /\ subHeight \in (0 - 1)..MaxDim
    /\ wins = <<>>
    /\ outfiles = <<>>
    /\ ppc = "call"
    /\ WriterIdle
    /\ RetryIdle
    /\ BatchIdle

\* patch_items: the task list is built over
\* enumerate(patch_windows(totalWidth, totalHeight, subWidth, subHeight));
\* nothing is built when patch_windows raises
CallPatchWindows ==
    /\ ppc = "call"
    /\ IF PatchWindowsRaises(totalWidth, totalHeight, subWidth, subHeight)
       THEN /\ ppc' = "raised"
            /\ UNCHANGED <<wins, outfiles>>
       ELSE /\ wins' = patch_windows(totalWidth, totalHeight, subWidth, subHeight)
            /\ outfiles' = OutFiles(wins')
            /\ ppc' = "returned"
    /\ UNCHANGED <<totalWidth, totalHeight, subWidth, subHeight,
                   in_gt, geo_win, out_gt>>
    /\ UNCHANGED <<wvars, ovars>>

\* write_geotiff(filename, arr, in_ds, window[0], window[1]) for window k:
\* the geotransform it writes
SetGeoTransform(k) ==
    /\ ppc = "returned"
    /\ geo_win = 0
    /\ k \in 1..Len(wins)
    /\ geo_win' = k
    /\ out_gt' = OutGeoTransform(in_gt, wins[k][1], wins[k][2])
    /\ UNCHANGED <<totalWidth, totalHeight, subWidth, subHeight, wins, ppc,
                   outfiles, in_gt>>
    /\ UNCHANGED <<wvars, ovars>>

NextWin ==
    \/ CallPatchWindows
    \/ \E k \in 1..(MaxDim * MaxDim) : SetGeoTransform(k)

SpecWin == InitWin /\ [][NextWin]_vars

SpecArgs == InitArgs /\ [][NextWin]_vars

\* ------------------------------------------------------------------ claims
InWindow(win, x, y) ==
    /\ win[1] <= x /\ x < win[1] + win[3]
    /\ win[2] <= y /\ y < win[2] + win[4]

\* C1: for positive W, H, pw, ph the windows patch_windows returns tile the
\* raster exactly once: every pixel of [0,W) x [0,H) lies in exactly one
\* window, and every window has sizes >= 1 and lies inside the raster.
C1_TilesExactlyOnce ==
    ppc = "returned" =>
        /\ \A x \in 0..(totalWidth - 1), y \in 0..(totalHeight - 1) :
              Cardinality({k \in 1..Len(wins) : InWindow(wins[k], x, y)}) = 1
        /\ \A k \in 1..Len(wins) :
              /\ wins[k][1] >= 0 /\ wins[k][2] >= 0
              /\ wins[k][3] >= 1 /\ wins[k][4] >= 1
              /\ wins[k][1] + wins[k][3] <= totalWidth
              /\ wins[k][2] + wins[k][4] <= totalHeight

\* a partition with ragged windows on both axes has been computed
C1_Witness ==
    /\ ppc = "returned"
    /\ totalWidth = 3 /\ subWidth = 2 /\ totalHeight = 3 /\ subHeight = 2
    /\ Len(wins) = 4
    /\ wins[4] = <<2, 2, 1, 1>>

\* C2: patch_windows returns exactly ceil(W/pw) * ceil(H/ph) windows, each
\* with an x-offset that is a multiple of pw and a y-offset that is a
\* multiple of ph; a patch larger than the raster yields the one window
\* (0, 0, W, H).
C2_CountAndOffsets ==
    ppc = "returned" =>
        /\ Len(wins) = CeilDiv(totalWidth, subWidth) * CeilDiv(totalHeight, subHeight)
        /\ \A k \in 1..Len(wins) :
              /\ wins[k][1] % subWidth = 0
              /\ wins[k][2] % subHeight = 0
        /\ (subWidth >= totalWidth /\ subHeight >= totalHeight) =>
              wins = << <<0, 0, totalWidth, totalHeight>> >>

\* a patch larger than the raster has produced its single clipped window
C2_Witness ==
    /\ ppc = "returned"
    /\ subWidth > totalWidth /\ subHeight > totalHeight
    /\ Len(wins) = 1
    /\ wins[1] = <<0, 0, totalWidth, totalHeight>>

\* C3: for a window at pixel offset (ox, oy) and a source geotransform
\* (ox0, px, rx, oy0, ry, py), rotation terms included, the geotransform
\* written to the patch has origin (ox0 + ox*px + oy*rx, oy0 + ox*ry + oy*py)
\* and the other four coefficients unchanged; for the window at (0, 0) it
\* equals the source geotransform.
C3_GeoTransformAffine ==
    geo_win # 0 =>
        LET ox == wins[geo_win][1]
            oy == wins[geo_win][2]
        IN  /\ out_gt = <<in_gt[1] + ox * in_gt[2] + oy * in_gt[3], in_gt[2], in_gt[3],
                          in_gt[4] + ox * in_gt[5] + oy * in_gt[6], in_gt[5], in_gt[6]>>
            /\ (ox = 0 /\ oy = 0) => out_gt = in_gt

\* the tasks of invocation r that ended with the given outcome
Count(r, outcome) == Cardinality({k \in 1..NumWindows : pc[r][k] = outcome})

\* what the patch of window k holds at <<row, col>> when written as claimed
ExpectedCell(k, p) ==
    IF p[2] < Windows[k][3] /\ p[1] < Windows[k][4]
    THEN Pixel(ds, Windows[k][1] + p[2], Windows[k][2] + p[1])
    ELSE (IF ds.NoDataValue = NONE THEN 0 ELSE ds.NoDataValue)

\* C4: every patch file process writes has dimensions (patchWidth,
\* patchHeight) whatever the window's position; for a ragged window of size
\* (sx, sy) the source pixels occupy the top-left sx-by-sy block and every
\* other cell holds the no-data value (zero when the source declares none);
\* the read block always fits in the buffer, so no task fails on the copy.
C4_UniformPatchSize ==
    /\ \A k \in DOMAIN files :
          /\ files[k].xsize = wsize
          /\ files[k].ysize = hsize
          /\ files[k].complete =>
                /\ DOMAIN files[k].arr = (0..(hsize - 1)) \X (0..(wsize - 1))
                /\ \A p \in DOMAIN files[k].arr : files[k].arr[p] = ExpectedCell(k, p)
    /\ \A r \in Runs, k \in 1..NumWindows :
          pc[r][k] \in {"create", "write"} =>
              /\ Windows[k][3] <= Shape1(src_array[r][k])
              /\ Windows[k][4] <= Shape0(src_array[r][k])
    /\ Count(1, "failed") + Count(2, "failed") = failures

\* a ragged window away from the origin has been written, padded with the
\* declared no-data value, into a patch wider than it is high
C4_Witness ==
    \E k \in DOMAIN files :
        /\ files[k].complete
        /\ Windows[k][1] > 0
        /\ Windows[k][3] < wsize
        /\ wsize # hsize
        /\ ds.NoDataValue = 99
        /\ files[k].arr[<<0, wsize - 1>>] = 99
        /\ files[k].arr[<<0, 0>>] # 99

AllNoData(k) ==
    /\ ds.NoDataValue # NONE
    /\ \A x \in Windows[k][1]..(Windows[k][1] + Windows[k][3] - 1),
          y \in Windows[k][2]..(Windows[k][2] + Windows[k][4] - 1) :
            Pixel(ds, x, y) = ds.NoDataValue

\* C6: a window whose source block is entirely no-data produces no output
\* file: once the tile writer has finished, no output path exists for it.
C6_NoDataWindowSkipped ==
    run[1] = "done" =>
        \A k \in 1..NumWindows : AllNoData(k) => ~PathExists(k)

\* C7: reads of the shared raster handle are mutually exclusive: at most one
\* worker of a pool is inside in_ds.ReadAsArray at a time.
C7_ReadsExclusive ==
    \A r \in Runs : Count(r, "reading") <= 1

\* C8: when two invocations run concurrently over the same raster and the
\* same empty output directory, every output file is created and written by
\* exactly one of them, and their written counts sum to the number of windows.
C8_WrittenExactlyOnce ==
    /\ \A k \in 1..NumWindows : creates[k] <= 1
    /\ (run[1] = "done" /\ run[2] = "done" /\ failures = 0) =>
          Count(1, "written") + Count(2, "written") = NumWindows

\* C9: a failure in one window's task never cancels sibling work, and the
\* run accounts for every window as exactly one of written, skipped or
\* failed: what the task hands back names its outcome.
C9_EveryWindowAccounted ==
    /\ \A r \in Runs : run[r] = "done" => \A k \in 1..NumWindows : pc[r][k] \in Terminal
    /\ \A r \in Runs, k \in 1..NumWindows :
          pc[r][k] \in Terminal => ret[r][k] = pc[r][k]

\* C10: each output file is complete or absent: whenever an output path
\* exists and no write_geotiff call has it open, it holds the fully written
\* patch, a write failure inside write_geotiff included.
C10_CompleteOrAbsent ==
    \A k \in DOMAIN files : files[k].open = {} => files[k].complete

\* the number a sequence of decimal digits denotes
DigitValue(d) == CHOOSE v \in 0..9 : Digits[v + 1] = d
RECURSIVE ParseInt(_)
ParseInt(digits) ==
    IF Len(digits) = 0 THEN 0
    ELSE 10 * ParseInt(SubSeq(digits, 1, Len(digits) - 1)) + DigitValue(digits[Len(digits)])

\* C11: patch_windows enumerates windows in row-major order: with
\* nx = ceil(W/pw), the window at index i has offset ((i mod nx)*pw,
\* (i div nx)*ph) and size (min(pw, W - ox), min(ph, H - oy)); its output path
\* is <prefix>_<i><ext> for that same i, so distinct windows get distinct
\* paths.
C11_RowMajorIndexedPaths ==
    ppc = "returned" =>
        LET nx == CeilDiv(totalWidth, subWidth)
        IN  /\ Len(outfiles) = Len(wins)
            /\ \A i \in 0..(Len(wins) - 1) :
                  LET ox == (i % nx) * subWidth
                      oy == (i \div nx) * subHeight
                      path == outfiles[i + 1]
                  IN  /\ wins[i + 1] = <<ox, oy, Min(subWidth, totalWidth - ox),
                                         Min(subHeight, totalHeight - oy)>>
                      /\ Len(path) >= 4
                      /\ path[1] = "base_out" /\ path[2] = "_"
                      /\ path[Len(path)] = ".tif"
                      /\ ParseInt(SubSeq(path, 3, Len(path) - 1)) = i
            /\ \A i, j \in 1..Len(outfiles) : i # j => outfiles[i] # outfiles[j]

\* a raster of four rows of four windows has been enumerated, and the window
\* of index 11, in the third row, has a path with the two digits of 11
C11_Witness ==
    /\ ppc = "returned"
    /\ totalWidth = 4 /\ subWidth = 1 /\ totalHeight = 4 /\ subHeight = 1
    /\ Len(wins) = 16
    /\ wins[12] = <<3, 2, 1, 1>>
    /\ outfiles[12] = <<"base_out", "_", "1", "1", ".tif">>

\* C12: whenever any of totalWidth, totalHeight, patchWidth, patchHeight is
\* zero or negative, patch_windows raises an error and returns no window
\* list.
C12_RejectsInvalidInput ==
    (ppc # "call" /\ (totalWidth <= 0 \/ totalHeight <= 0 \/ subWidth <= 0 \/ subHeight <= 0))
        => (ppc = "raised" /\ wins = <<>>)

\* the calls of func that raised
Failed(cs) == {i \in 1..Len(cs) : cs[i] = "err"}

\* C14: run_with_retry calls func at most max_retries + 1 times; it returns
\* the result of the first successful call without calling func again; when
\* the first max_retries + 1 calls all fail it raises the exception of the
\* last call; it waits wait_seconds between consecutive attempts and never
\* after the final one.
C14_BoundedRetry ==
    rpc # "idle" =>
        /\ Len(calls) <= max_retries + 1
        /\ rpc \in {"call", "sleep"} => Failed(calls) = 1..Len(calls)
        /\ rpc = "returned" =>
              /\ result = Len(calls)
              /\ calls[result] = "ok"
              /\ Failed(calls) = 1..(Len(calls) - 1)
        /\ rpc = "raised" =>
              /\ Len(calls) = max_retries + 1
              /\ Failed(calls) = 1..Len(calls)
              /\ result = Len(calls)
        /\ (Len(calls) = max_retries + 1 /\ Failed(calls) = 1..Len(calls)) => rpc = "raised"
        /\ rpc = "call" => slept = wait_seconds * Len(calls)
        /\ rpc \in {"returned", "raised", "sleep"} => slept = wait_seconds * (Len(calls) - 1)

\* every attempt has failed and the last exception has been raised, after
\* three waits of two seconds
C14_Witness ==
    /\ rpc = "raised"
    /\ max_retries = 3
    /\ wait_seconds = 2
    /\ calls = <<"err", "err", "err", "err">>
    /\ result = 4
    /\ slept = 6

\* C13: a raster-level error for one item of the batch (its bytes cannot be
\* obtained after the bounded retries, or cannot be opened as a raster)
\* stops that item only: no patch is written for it and, the worker pool
\* being creatable, every later item is still processed when patch_items ends.
C13_RasterErrorIsolated ==
    (bpc \in {"ended", "aborted"} /\ num_workers(cpu) >= 1) =>
        \A i \in 1..Len(item) : item[i] # "pending"

\* C15: for every number of processing units c >= 1 the pool size
\* num_workers = int(c - 0.10*c) satisfies 1 <= num_workers <= c, so the
\* pool of patch_items can always be created.
C15_PoolSizePositive ==
    \A r \in Runs :
        run[r] # "idle" =>
            /\ 1 <= num_workers(cpu) /\ num_workers(cpu) <= cpu
            /\ run[r] # "crashed"

====
